---- MODULE Spec2Model ----
(***************************************************************************)
(* Model of src/src/linear_regression.py: split_data, test_model,          *)
(* test_regularized_model, add_to_output_files and regress_factors (the    *)
(* backward-elimination loop, the acceptance gate, the out-of-sample       *)
(* evaluation and the portfolio mapping).  src/linear_regression.py is an  *)
(* earlier revision with the same regress_factors loop.                    *)
(*                                                                         *)
(* Numbers are scaled by 100: a p-value of 0.05 is 5, an adjusted R^2 of   *)
(* 0.5 is 50.  A data frame is its column labels and its row index; the    *)
(* cell values are not modelled, so the outcome of an OLS fit (p-values,   *)
(* adjusted R^2) is a nondeterministic choice per fit.                     *)
(***************************************************************************)
EXTENDS Integers, Sequences, FiniteSets, TLC

\* ---------------------------------------------------------------- bounds
MaxFactors == 2
MaxStocks == 2
MaxRows == 3
MaxLen == 3

\* ------------------------------------------------------- program constants
\* regress_factors(..., signif_level=0.05, ...)
signif_level == 5
\* test_regularized_model(model, 0.01, ...)
test_alpha == 1
\* A ratio is the binary float nearest to num/den: it lies below.num/below.den
\* units of 2^-53 below num/den (0 when num/den is a binary fraction).
\* split_data(df, ratio=0.7): float 0.7 is 7/10 - (2/5) * 2^-53.
DefaultRatio == [num |-> 7, den |-> 10, below |-> [num |-> 2, den |-> 5]]
\* The float of a binary fraction num/den, which is exact.
Binary(num, den) == [num |-> num, den |-> den, below |-> [num |-> 0, den |-> 1]]

\* Column labels the inputs are drawn from.
FactorNames == <<"f1", "f2", "f3", "f4", "f5">>
\* Column labels of stocks_df: a plain string, or a tuple of strings (a two-level
\* column index); two of them carry the same ticker, one is a 1-tuple.
StockLabels == <<[tuple |-> FALSE, parts |-> <<"s1">>],
                 [tuple |-> TRUE, parts |-> <<"a", "X">>],
                 [tuple |-> TRUE, parts |-> <<"b", "X">>],
                 [tuple |-> TRUE, parts |-> <<"c">>]>>

\* p-values a fit may report: at the significance level (kept) and above it.
PValues == {5, 9}
\* r2_threshold values a caller may pass (default 0.5; 1.1 is unreachable).
R2Thresholds == {0, 50, 110}
\* Row values of the tables split_data is applied to directly.
RowValues == {1, 2}
\* Ratios passed to split_data directly: inside (0,1) and outside it.
Ratios == {Binary(1, 4), Binary(1, 2), DefaultRatio, Binary(3, 4), Binary(0, 1),
           Binary(1, 1), Binary(3, 2), Binary(-1, 2)}
\* Lengths of the longer tables split_data is applied to.
LongLengths == {10, 90}

VARIABLES
    pc,                  \* position in regress_factors
    index,               \* the date index the two input tables share
    factors_in,          \* columns of the factors_df argument
    constant_columns,    \* the columns of factors_df whose values are all equal and non-zero
    stocks_df,           \* columns of the stocks_df argument, in order
    r2_threshold,        \* argument
    outputToExcel,       \* argument
    factor_train_df,     \* [columns, index]
    factor_test_df,      \* [columns, index]
    portfolios,          \* dict: factor label -> set of tickers
    stock_idx,           \* position of the for loop over stocks_df
    stock_train_df,      \* [name, index]
    stock_test_df,       \* [name, index]
    pvals_under_sig,
    temp_factor_df,      \* columns of the candidate training table
    model,               \* sm.OLS(stock_train_df, temp_factor_df)
    results,             \* model.fit()
    all_pvals_under,
    factor,              \* the inner loop's variable, alive after the loop
    factor_test_temp_df, \* factor_test_df without the columns in to_remove
    tm_call,             \* arguments of the last test_model call made at line 149
    reg_call,            \* arguments of the last test_regularized_model call
    returned,            \* {} until regress_factors returns, then {portfolios}
    fits,                \* history: fits made for the current stock
    qualified,           \* history: stocks with a converged iteration at or over the threshold
    evaluated,           \* history: stocks whose evaluation and output finished
    recorded,            \* history: stocks for which the mapping was written
    sp_df, sp_ratio, sp_out, sp_pc,  \* a direct call split_data(sp_df, sp_ratio)
    oracle,              \* the data: None (any fit outcome), or what each candidate set's fit gives
    seq_set, seq_pc      \* one-factor-at-a-time elimination on the same data

vars == <<pc, index, factors_in, constant_columns, stocks_df, r2_threshold, outputToExcel, factor_train_df,
          factor_test_df, portfolios, stock_idx, stock_train_df, stock_test_df,
          pvals_under_sig, temp_factor_df, model, results, all_pvals_under, factor,
          factor_test_temp_df, tm_call, reg_call, returned, fits, qualified, evaluated,
          recorded, sp_df, sp_ratio, sp_out, sp_pc, oracle, seq_set, seq_pc>>

spvars == <<sp_df, sp_ratio, sp_out, sp_pc>>
inputs == <<index, factors_in, constant_columns, stocks_df, r2_threshold, outputToExcel,
            oracle>>
seqvars == <<seq_set, seq_pc>>
\* Left alone by every step but the write of the mapping.
kept == <<recorded, seq_set, seq_pc>>

\* ------------------------------------------------------------- helpers
Range(s) == {s[i] : i \in 1..Len(s)}
Min(a, b) == IF a < b THEN a ELSE b
Max(a, b) == IF a > b THEN a ELSE b
Dates(n) == [i \in 1..n |-> i]
None == [none |-> TRUE]

\* The largest b with 2^b <= k, as the power 2^b (k >= 1).
RECURSIVE Pow2Below(_)
Pow2Below(k) == IF k < 2 THEN 1 ELSE 2 * Pow2Below(k \div 2)

\* int(ratio*n): the float product, rounded to nearest (ties to even), truncated.
\* When num*n/den is no integer the rounding cannot reach one.  When it is an
\* integer k and the float ratio lies below num/den, the exact product lies
\* below.num*n/below.den units of 2^-53 under k, and rounds to k only if that is
\* at most half the spacing of the floats under k; otherwise to the float under k.
\* int() truncates toward zero.  (The ratios below zero here are binary fractions.)
int_product(ratio, n) ==
    LET x == ratio.num * n
        k == x \div ratio.den
        half == IF k = Pow2Below(k) THEN Pow2Below(k) ELSE 2 * Pow2Below(k)
    IN IF ratio.below.num = 0 \/ x % ratio.den # 0 \/ k < 1
       THEN IF x >= 0 THEN k ELSE -((-x) \div ratio.den)
       ELSE IF 2 * ratio.below.num * n <= ratio.below.den * half THEN k ELSE k - 1

\* Position a Python slice bound k denotes in a sequence of n rows.
SliceBound(k, n) == IF k < 0 THEN Max(n + k, 0) ELSE Min(k, n)

\* df.iloc[:k] and df.iloc[k:]
iloc_to(rows, k) == SubSeq(rows, 1, SliceBound(k, Len(rows)))
iloc_from(rows, k) == SubSeq(rows, SliceBound(k, Len(rows)) + 1, Len(rows))

\* split_data(df, ratio): (df.iloc[:int(ratio*len(df))], df.iloc[int(ratio*len(df)):])
split_data(rows, ratio) ==
    <<iloc_to(rows, int_product(ratio, Len(rows))),
      iloc_from(rows, int_product(ratio, Len(rows)))>>

\* sm.add_constant(factors_df): prepends the column 'const', unless the table
\* already has a constant non-zero column (has_constant='skip', the default).
add_constant(cols, constant) ==
    IF constant # {} THEN cols ELSE <<"const">> \o cols

\* df.drop(columns=label): the columns without label, order kept.
drop(cols, label) == SelectSeq(cols, LAMBDA c : c # label)

\* stock[1] exists: the label is no tuple, or a tuple of two or more.
HasTicker(label) == ~label.tuple \/ Len(label.parts) >= 2

\* ticker = stock[1] if isinstance(stock, tuple) else stock
ticker_of(label) == IF label.tuple THEN label.parts[2] ELSE label.parts[1]

\* ------------------------------------------------- the fit (statsmodels)
\* results.rsquared_adj of a fit on cols: {} stands for nan (every comparison
\* with it is false), {v} for the number v.  Any of them can come from any
\* model: the adjusted R^2 of a model holding only the constant is 0 up to
\* rounding, and on a constant series a ratio of rounding errors, nan or up to 1.
RSquaredAdjOutcomes == {{}, {0}, {50}, {100}}

\* model = sm.OLS(stock_train_df, temp_factor_df)
OLS(endog, exog) == [endog |-> endog, exog |-> exog]

\* results = model.fit(): one p-value per column of the model, and adjusted R^2.
FitOutcomes(m) ==
    {[model |-> m, index |-> m.exog.columns, pvalues |-> pv, rsquared_adj |-> r2] :
        pv \in [1..Len(m.exog.columns) -> PValues],
        r2 \in RSquaredAdjOutcomes}

\* The non-constant columns of a fit whose p-value the data o puts above
\* signif_level when the model holds exactly the non-constant columns S.
FailingIn(o, S) == {f \in S : <<S, f>> \in o.failing}

\* The p-values of the non-constant columns of the fit outcome res are on the side
\* of signif_level that the data o gives for res's columns: they are a function of
\* the training data and the candidate columns.  The loop never tests the p-value
\* of 'const', which is left free.
OracleAllows(o, res) ==
    \/ o = None
    \/ LET S == Range(res.index) \ {"const"}
       IN \A i \in 1..Len(res.index) :
             res.index[i] # "const" =>
                 (res.pvalues[i] > signif_level <=> res.index[i] \in FailingIn(o, S))

\* results.rsquared_adj >= r2_threshold (false for nan)
GE(r2, threshold) == \E v \in r2 : v >= threshold

\* ----------------------------------------------------- regress_factors
\* while(not(pvals_under_sig) and (len(temp_factor_df.columns) > 0))
WhileCondition == ~pvals_under_sig /\ Len(temp_factor_df) > 0

\* LoopBody that flags a failing factor without dropping it.
LoopBodyNoDrop(f, pvalue, st) ==
    IF pvalue > signif_level /\ f # "const"
    THEN [temp |-> st.temp, all |-> FALSE, factor |-> f]
    ELSE [st EXCEPT !.factor = f]

\* LoopBody that drops only the first failing factor of a fit.
LoopBodyBreak(f, pvalue, st) ==
    IF pvalue > signif_level /\ f # "const"
    THEN [temp |-> IF st.all THEN drop(st.temp, f) ELSE st.temp,
          all |-> FALSE, factor |-> f]
    ELSE [st EXCEPT !.factor = f]

\* LoopBody with >= in place of >.
LoopBodyAtLevel(f, pvalue, st) ==
    IF pvalue >= signif_level /\ f # "const"
    THEN [temp |-> drop(st.temp, f), all |-> FALSE, factor |-> f]
    ELSE [st EXCEPT !.factor = f]

\* One pass of `for factor_pval in factor_pvals` on (f, pvalue).
LoopBody(f, pvalue, st) ==
    IF pvalue > signif_level /\ f # "const"
    THEN [temp |-> drop(st.temp, f), all |-> FALSE, factor |-> f]
    ELSE [st EXCEPT !.factor = f]

\* The for loop over zip(results.pvalues.index, results.pvalues.values), from
\* position i on; st holds temp_factor_df, all_pvals_under and factor.
RECURSIVE InnerLoop(_, _, _)
InnerLoop(i, res, st) ==
    IF i > Len(res.index) THEN st
    ELSE InnerLoop(i + 1, res, LoopBody(res.index[i], res.pvalues[i], st))

\* GateCondition with > in place of >=.
GateConditionStrict(res, threshold, all_under) ==
    (\E v \in res.rsquared_adj : v > threshold) /\ all_under

\* if results.rsquared_adj >= r2_threshold and all_pvals_under
GateCondition(res, threshold, all_under) ==
    GE(res.rsquared_adj, threshold) /\ all_under

\* portfolios[key] = set([t]) if portfolios.get(key) is None else portfolios[key].add(t)
dict_add(d, key, t) ==
    [k \in DOMAIN d \cup {key} |->
        IF k = key THEN (IF key \in DOMAIN d THEN d[key] \cup {t} ELSE {t})
        ELSE d[k]]

\* to_remove that leaves the test table unpruned.
to_remove_nothing(test_cols, temp_cols) == <<>>

\* to_remove = [col for col in factor_test_df.columns if col not in temp_factor_df.columns]
to_remove(test_cols, temp_cols) ==
    SelectSeq(test_cols, LAMBDA col : col \notin Range(temp_cols))

\* factor_test_df.drop(to_remove, axis=1)
drop_all(cols, labels) == SelectSeq(cols, LAMBDA c : c \notin Range(labels))

\* Raise with the error caught inside the loop body.
RaiseSwallowed == "end_iter"

\* Position reached when a call raises: nothing in regress_factors catches it.
Raise == "aborted"

TickersIn(d) == UNION {d[k] : k \in DOMAIN d}

\* The stock the for loop is at.
stock == stocks_df[stock_idx]

\* No non-constant coefficient of the fit has a p-value above signif_level.
Converged(res) ==
    \A i \in 1..Len(res.index) :
        res.index[i] # "const" => ~(res.pvalues[i] > signif_level)

\* Values of the locals before their first assignment, and of the history.
Locals ==
    /\ factor_train_df = None /\ factor_test_df = None
    /\ portfolios = <<>>
    /\ stock_idx = 0
    /\ stock_train_df = None /\ stock_test_df = None
    /\ pvals_under_sig = FALSE
    /\ temp_factor_df = <<>>
    /\ model = None /\ results = None
    /\ all_pvals_under = FALSE
    /\ factor = "None"
    /\ factor_test_temp_df = None
    /\ tm_call = None /\ reg_call = None
    /\ returned = {}
    /\ fits = 0 /\ qualified = {} /\ evaluated = {} /\ recorded = {}

\* The sequences of at most n labels taken from pool in its order.
Picks(pool, n) ==
    {SelectSeq(pool, LAMBDA l : l \in chosen) :
        chosen \in {c \in SUBSET Range(pool) : Cardinality(c) <= n}}

\* A call regress_factors(stocks_df, factors_df, signif_level, r2_threshold, outputToExcel)
\* about to start; no column of the factor table is named 'const'.
Init ==
    /\ pc = "start"
    /\ index = Dates(MaxRows)
    /\ factors_in \in {SubSeq(FactorNames, 1, n) : n \in 0..MaxFactors}
    /\ constant_columns \in SUBSET Range(factors_in)
    /\ stocks_df \in Picks(StockLabels, MaxStocks)
    /\ r2_threshold \in R2Thresholds
    /\ outputToExcel \in BOOLEAN
    /\ Locals
    /\ sp_pc = "idle" /\ sp_df = <<>> /\ sp_ratio = DefaultRatio /\ sp_out = <<<<>>, <<>>>>
    /\ oracle = None /\ seq_set = {} /\ seq_pc = "idle"

\* factors_df = sm.add_constant(factors_df); factor_train_df, factor_test_df =
\* split_data(factors_df); portfolios = dict()
RegressStart ==
    /\ pc = "start"
    /\ LET cols == add_constant(factors_in, constant_columns)
           parts == split_data(index, DefaultRatio)
       IN /\ factor_train_df' = [columns |-> cols, index |-> parts[1]]
          /\ factor_test_df' = [columns |-> cols, index |-> parts[2]]
    /\ portfolios' = <<>>
    /\ pc' = "for"
    /\ UNCHANGED <<inputs, stock_idx, stock_train_df, stock_test_df, pvals_under_sig,
                   temp_factor_df, model, results, all_pvals_under, factor,
                   factor_test_temp_df, tm_call, reg_call, returned, fits, qualified,
                   evaluated, spvars, kept>>

\* for stock in stocks_df: stock_train_df, stock_test_df = split_data(stocks_df[stock]);
\* pvals_under_sig = False; temp_factor_df = factor_train_df
ForStock ==
    /\ pc = "for" /\ stock_idx < Len(stocks_df)
    /\ stock_idx' = stock_idx + 1
    /\ LET parts == split_data(index, DefaultRatio)
       IN /\ stock_train_df' = [name |-> stocks_df[stock_idx + 1], index |-> parts[1]]
          /\ stock_test_df' = [name |-> stocks_df[stock_idx + 1], index |-> parts[2]]
    /\ pvals_under_sig' = FALSE
    /\ temp_factor_df' = factor_train_df.columns
    /\ fits' = 0
    \* The previous stock's model, results, all_pvals_under, factor and test table
    \* are dead here: each is assigned again before it is read.  They are cleared.
    /\ model' = None /\ results' = None
    /\ all_pvals_under' = FALSE
    /\ factor' = "None"
    /\ factor_test_temp_df' = None
    /\ tm_call' = None /\ reg_call' = None
    /\ pc' = "while"
    /\ UNCHANGED <<inputs, factor_train_df, factor_test_df, portfolios, returned,
                   qualified, evaluated, spvars, kept>>

\* The for loop is exhausted: return portfolios
Return ==
    /\ pc = "for" /\ stock_idx = Len(stocks_df)
    /\ returned' = {portfolios}
    /\ pc' = "returned"
    /\ UNCHANGED <<inputs, factor_train_df, factor_test_df, portfolios, stock_idx,
                   stock_train_df, stock_test_df, pvals_under_sig, temp_factor_df, model,
                   results, all_pvals_under, factor, factor_test_temp_df, tm_call,
                   reg_call, fits, qualified, evaluated, spvars, kept>>

\* The while condition is false: on to the next stock.
WhileExit ==
    /\ pc = "while" /\ ~WhileCondition
    /\ pc' = "for"
    /\ UNCHANGED <<inputs, factor_train_df, factor_test_df, portfolios, stock_idx,
                   stock_train_df, stock_test_df, pvals_under_sig, temp_factor_df, model,
                   results, all_pvals_under, factor, factor_test_temp_df, tm_call,
                   reg_call, returned, fits, qualified, evaluated, spvars, kept>>

\* ticker = stock[1] on a tuple of one element: the IndexError leaves regress_factors.
TickerRaises ==
    /\ pc = "while" /\ WhileCondition /\ ~HasTicker(stock)
    /\ pc' = Raise
    /\ UNCHANGED <<inputs, factor_train_df, factor_test_df, portfolios, stock_idx,
                   stock_train_df, stock_test_df, pvals_under_sig, temp_factor_df, model,
                   results, all_pvals_under, factor, factor_test_temp_df, tm_call,
                   reg_call, returned, fits, qualified, evaluated, spvars, kept>>

\* One pass of the while body up to the gate: build the model, fit it, and drop
\* every non-constant column whose p-value is above signif_level.
FitAndPrune ==
    /\ pc = "while" /\ WhileCondition /\ HasTicker(stock)
    /\ LET m == OLS(stock_train_df,
                    [columns |-> temp_factor_df, index |-> factor_train_df.index])
       IN \E res \in {r \in FitOutcomes(m) : OracleAllows(oracle, r)} :
            LET st == InnerLoop(1, res, [temp |-> temp_factor_df, all |-> TRUE,
                                         factor |-> factor])
            IN /\ model' = m
               /\ results' = res
               /\ temp_factor_df' = st.temp
               /\ all_pvals_under' = st.all
               /\ factor' = st.factor
               /\ qualified' = IF Converged(res) /\ GE(res.rsquared_adj, r2_threshold)
                               THEN qualified \cup {stock} ELSE qualified
    /\ fits' = fits + 1
    /\ pc' = "gate"
    /\ UNCHANGED <<inputs, factor_train_df, factor_test_df, portfolios, stock_idx,
                   stock_train_df, stock_test_df, pvals_under_sig, factor_test_temp_df,
                   tm_call, reg_call, returned, evaluated, spvars, kept>>

\* The gate passes: the ticker goes under the key str(factor).
GateAccept ==
    /\ pc = "gate" /\ GateCondition(results, r2_threshold, all_pvals_under)
    /\ portfolios' = dict_add(portfolios, factor, ticker_of(stock))
    /\ recorded' = recorded \cup {stock}
    /\ pc' = "test_model"
    /\ UNCHANGED <<inputs, factor_train_df, factor_test_df, stock_idx, stock_train_df,
                   stock_test_df, pvals_under_sig, temp_factor_df, model, results,
                   all_pvals_under, factor, factor_test_temp_df, tm_call, reg_call,
                   returned, fits, qualified, evaluated, spvars, seqvars>>

GateReject ==
    /\ pc = "gate" /\ ~GateCondition(results, r2_threshold, all_pvals_under)
    /\ pc' = "end_iter"
    /\ UNCHANGED <<inputs, factor_train_df, factor_test_df, portfolios, stock_idx,
                   stock_train_df, stock_test_df, pvals_under_sig, temp_factor_df, model,
                   results, all_pvals_under, factor, factor_test_temp_df, tm_call,
                   reg_call, returned, fits, qualified, evaluated, spvars, kept>>

\* factor_test_temp_df = factor_test_df.drop(to_remove, axis=1);
\* prediction_df, mse = test_model(results, factor_test_temp_df, stock_test_df)
TestModel ==
    /\ pc = "test_model"
    /\ LET pruned == [columns |-> drop_all(factor_test_df.columns,
                                   to_remove(factor_test_df.columns, temp_factor_df)),
                      index |-> factor_test_df.index]
       IN /\ factor_test_temp_df' = pruned
          /\ tm_call' = [model |-> results, factor_test_df |-> pruned,
                         stock_test_df |-> stock_test_df]
    /\ pc' = "test_reg"
    /\ UNCHANGED <<inputs, factor_train_df, factor_test_df, portfolios, stock_idx,
                   stock_train_df, stock_test_df, pvals_under_sig, temp_factor_df, model,
                   results, all_pvals_under, factor, reg_call, returned, fits, qualified,
                   evaluated, spvars, kept>>

\* reg_prediction_df, reg_mse = test_regularized_model(model, 0.01, stock_test_df,
\* factor_test_temp_df)
TestRegularized ==
    /\ pc = "test_reg"
    /\ reg_call' = [model |-> model, test_alpha |-> test_alpha,
                    stock_test_df |-> stock_test_df,
                    factor_test_df |-> factor_test_temp_df]
    /\ pc' = "output"
    /\ UNCHANGED <<inputs, factor_train_df, factor_test_df, portfolios, stock_idx,
                   stock_train_df, stock_test_df, pvals_under_sig, temp_factor_df, model,
                   results, all_pvals_under, factor, factor_test_temp_df, tm_call,
                   returned, fits, qualified, evaluated, spvars, kept>>

\* if outputToExcel: add_to_output_files(...) twice; then the prints.
OutputDone ==
    /\ pc = "output"
    /\ evaluated' = evaluated \cup {stock}
    /\ pc' = "end_iter"
    /\ UNCHANGED <<inputs, factor_train_df, factor_test_df, portfolios, stock_idx,
                   stock_train_df, stock_test_df, pvals_under_sig, temp_factor_df, model,
                   results, all_pvals_under, factor, factor_test_temp_df, tm_call,
                   reg_call, returned, fits, qualified, spvars, kept>>

\* add_to_output_files cannot write the spreadsheet: the error leaves regress_factors.
OutputRaises ==
    /\ pc = "output" /\ outputToExcel
    /\ pc' = Raise
    /\ UNCHANGED <<inputs, factor_train_df, factor_test_df, portfolios, stock_idx,
                   stock_train_df, stock_test_df, pvals_under_sig, temp_factor_df, model,
                   results, all_pvals_under, factor, factor_test_temp_df, tm_call,
                   reg_call, returned, fits, qualified, evaluated, spvars, kept>>

\* if all_pvals_under: pvals_under_sig = True
EndIter ==
    /\ pc = "end_iter"
    /\ pvals_under_sig' = (all_pvals_under \/ pvals_under_sig)
    /\ pc' = "while"
    /\ UNCHANGED <<inputs, factor_train_df, factor_test_df, portfolios, stock_idx,
                   stock_train_df, stock_test_df, temp_factor_df, model, results,
                   all_pvals_under, factor, factor_test_temp_df, tm_call, reg_call,
                   returned, fits, qualified, evaluated, spvars, kept>>

Next ==
    \/ RegressStart \/ ForStock \/ Return \/ WhileExit \/ TickerRaises \/ FitAndPrune
    \/ GateAccept \/ GateReject \/ TestModel \/ TestRegularized
    \/ OutputDone \/ OutputRaises \/ EndIter

Spec == Init /\ [][Next]_vars

\* ------------------------------------------- split_data called directly
\* All sequences over S of length at most n.
SeqsUpTo(S, n) == UNION {[1..k -> S] : k \in 0..n}

\* A direct call split_data(sp_df, sp_ratio) is about to be made, and a call of
\* regress_factors on tables of any length up to MaxRows, or of a longer length.
SplitInit ==
    /\ pc = "start"
    /\ index \in {Dates(n) : n \in (1..MaxRows) \cup LongLengths}
    /\ factors_in = SubSeq(FactorNames, 1, 1)
    /\ constant_columns \in SUBSET Range(factors_in)
    /\ stocks_df = SubSeq(StockLabels, 1, 1)
    /\ r2_threshold = 50
    /\ outputToExcel = TRUE
    /\ Locals
    /\ sp_pc = "call"
    /\ sp_df \in SeqsUpTo(RowValues, MaxLen) \cup {Dates(n) : n \in LongLengths}
    /\ sp_ratio \in Ratios
    /\ sp_out = <<<<>>, <<>>>>
    /\ oracle = None /\ seq_set = {} /\ seq_pc = "idle"

\* train, test = split_data(sp_df, sp_ratio)
SplitCall ==
    /\ sp_pc = "call"
    /\ sp_out' = split_data(sp_df, sp_ratio)
    /\ sp_pc' = "done"
    /\ UNCHANGED <<pc, inputs, factor_train_df, factor_test_df, portfolios, stock_idx,
                   stock_train_df, stock_test_df, pvals_under_sig, temp_factor_df, model,
                   results, all_pvals_under, factor, factor_test_temp_df, tm_call,
                   reg_call, returned, fits, qualified, evaluated, sp_df, sp_ratio,
                   kept>>

SplitNext == SplitCall \/ RegressStart \/ ForStock

SplitSpec == SplitInit /\ [][SplitNext]_vars

\* ================================================================ claims
Processed(i) == i < stock_idx \/ (i = stock_idx /\ pc # "gate")
InMapping(s) == HasTicker(s) /\ ticker_of(s) \in TickersIn(portfolios)
\* Positions at which model and results are those of the current stock's last fit.
AfterFit == pc \in {"gate", "test_model", "test_reg", "output", "end_iter", "aborted"}
Evaluating == pc \in {"test_model", "test_reg", "output"}
ConstOnlyFit == AfterFit /\ model # None /\ model.exog.columns = <<"const">>
RatioInUnit(r) == 0 < r.num /\ r.num < r.den

\* C1: a security is added to the Portfolio Mapping exactly when its selector loop
\* had an iteration with no non-constant p-value above signif_level and an adjusted
\* R^2 of at least r2_threshold; the mapping holds the tickers of the securities
\* added and no other; with r2_threshold above 1 the mapping stays empty.
AcceptanceGate ==
    /\ \A i \in 1..Len(stocks_df) :
          /\ Processed(i) => (stocks_df[i] \in recorded <=> stocks_df[i] \in qualified)
          /\ i > stock_idx => stocks_df[i] \notin recorded
    /\ TickersIn(portfolios) = {ticker_of(s) : s \in recorded}
    /\ r2_threshold > 100 => DOMAIN portfolios = {}

AcceptanceGateWitness ==
    /\ pc = "returned"
    /\ \E i, j \in 1..Len(stocks_df) :
          /\ stocks_df[i].tuple
          /\ InMapping(stocks_df[i]) /\ stocks_df[i] \in qualified
          /\ ~InMapping(stocks_df[j]) /\ stocks_df[j] \notin qualified

\* C2: on acceptance the ticker is recorded under every surviving non-constant
\* factor, under no other key, and the key 'const' is never created.
RecordsSurvivingFactors ==
    /\ "const" \notin DOMAIN portfolios
    /\ pc = "test_model" =>
          /\ \A f \in Range(temp_factor_df) \ {"const"} :
                f \in DOMAIN portfolios /\ ticker_of(stock) \in portfolios[f]
          /\ \A k \in DOMAIN portfolios :
                ticker_of(stock) \in portfolios[k] => k \in Range(temp_factor_df) \ {"const"}

\* C3: the while loop of one security makes at most |factors| + 1 fits, and its
\* candidate set stays within the factor columns plus the constant.
SelectorTermination ==
    /\ fits <= Len(factors_in) + 1
    /\ (pc = "while" /\ WhileCondition) => fits <= Len(factors_in)
    /\ stock_idx > 0 =>
          Range(temp_factor_df) \subseteq Range(add_constant(factors_in, constant_columns))

SelectorTerminationWitness ==
    /\ pc = "while" /\ ~WhileCondition
    /\ Len(factors_in) = MaxFactors
    /\ fits = Len(factors_in) + 1
    /\ temp_factor_df = <<"const">>

\* C4 as stated: once only the constant is left the selector stops with no
\* acceptance, whatever r2_threshold is: nothing recorded, no evaluation, no error.
ExhaustionNoAcceptance ==
    ConstOnlyFit => /\ stock \notin recorded
                    /\ ~Evaluating
                    /\ pc # "aborted"

\* C5: for a ratio in (0,1) split_data returns floor(r * n) leading rows and the
\* remaining rows, which together are the table in its order; regress_factors cuts
\* the factor table and the stock series at the same position.
SplitComplete ==
    /\ (sp_pc = "done" /\ RatioInUnit(sp_ratio)) =>
          /\ Len(sp_out[1]) = (sp_ratio.num * Len(sp_df)) \div sp_ratio.den
          /\ Len(sp_out[2]) = Len(sp_df) - Len(sp_out[1])
          /\ sp_out[1] \o sp_out[2] = sp_df
    /\ pc = "while" =>
          /\ factor_train_df.index = stock_train_df.index
          /\ factor_test_df.index = stock_test_df.index
          /\ factor_train_df.index \o factor_test_df.index = index
          /\ Len(factor_train_df.index) =
                (DefaultRatio.num * Len(index)) \div DefaultRatio.den

\* C6: the test table given to test_model and to test_regularized_model has the
\* columns of the accepted model, in its order; both calls get the same table and
\* the regularized refit is made on the accepted model's training data.
EvaluatorColumns ==
    /\ pc \in {"test_reg", "output"} =>
          /\ tm_call.model = results
          /\ tm_call.factor_test_df.columns = tm_call.model.model.exog.columns
          /\ tm_call.factor_test_df.index = factor_test_df.index
    /\ pc = "output" =>
          /\ reg_call.factor_test_df = tm_call.factor_test_df
          /\ reg_call.model = tm_call.model.model
          /\ reg_call.model.endog = stock_train_df
          /\ reg_call.model.exog.index = factor_train_df.index

EvaluatorColumnsWitness ==
    /\ pc = "output"
    /\ Len(tm_call.factor_test_df.columns) < Len(factor_test_df.columns)
    /\ Len(tm_call.factor_test_df.columns) >= 2

\* C7 as stated: the mapping never holds a security whose evaluation and output
\* have not finished.
MappingAfterEvaluation ==
    /\ recorded \subseteq evaluated
    /\ \A t \in TickersIn(portfolios) : \E s \in evaluated : ticker_of(s) = t

\* C7 amended: the ticker is written at acceptance, before the evaluation; the
\* mapping regress_factors returns holds only securities whose evaluation and
\* output finished, and nothing is returned once a step has raised.
ReturnedAfterEvaluation ==
    /\ \A p \in returned : \A t \in TickersIn(p) : \E s \in evaluated : ticker_of(s) = t
    /\ pc = "returned" => recorded \subseteq evaluated
    /\ pc = "aborted" => returned = {}
    /\ pc = "test_model" => InMapping(stock) /\ stock \in recorded \ evaluated

ReturnedAfterEvaluationWitness ==
    /\ pc = "returned"
    /\ \E p \in returned : TickersIn(p) # {}

\* C8: a call with a ratio outside (0,1) never gets as far as returning a split.
ConfigurationErrorsFatal ==
    sp_pc = "done" => RatioInUnit(sp_ratio)

\* Columns of a fit that the inner loop is to drop.
Failing(res) ==
    {res.index[i] : i \in {j \in 1..Len(res.index) :
                              res.pvalues[j] > signif_level /\ res.index[j] # "const"}}
FitStep == pc = "while" /\ pc' = "gate"

\* C9 as stated: a non-terminal iteration removes exactly one factor.
SingleElimination ==
    [][(FitStep /\ ~all_pvals_under') =>
          Len(temp_factor_df') = Len(temp_factor_df) - 1]_vars

\* C9 amended: a non-terminal iteration removes every factor whose p-value is above
\* signif_level in that fit, at least one, and no other column.
FailingEliminated ==
    [][FitStep =>
          /\ temp_factor_df' =
                SelectSeq(temp_factor_df, LAMBDA c : c \notin Failing(results'))
          /\ ~all_pvals_under' => Len(temp_factor_df') < Len(temp_factor_df)
          /\ all_pvals_under' <=> Failing(results') = {}]_vars

FailingEliminatedWitness ==
    /\ pc = "gate"
    /\ Len(model.exog.columns) - Len(temp_factor_df) >= 2

\* C10: within one security's loop the candidate set never gains a column, a
\* non-terminal iteration removes a non-constant factor, and 'const' stays in the
\* candidate set whatever its p-value.
MonotonicShrinkage ==
    [][/\ (stock_idx' = stock_idx /\ stock_idx > 0) =>
              Range(temp_factor_df') \subseteq Range(temp_factor_df)
       /\ (FitStep /\ ~all_pvals_under') =>
              \E f \in Range(temp_factor_df) \ Range(temp_factor_df') : f # "const"
       /\ stock_idx' > 0 => "const" \in Range(temp_factor_df')]_vars

\* ------------------------------ elimination order on one security's data
\* What the fits on one security's training data give: for each candidate set S
\* of non-constant columns, the columns of S with a p-value above signif_level.
Oracles(F) ==
    {[failing |-> fl] : fl \in SUBSET {p \in (SUBSET F) \X F : p[2] \in p[1]}}

\* One security, MaxFactors factor columns, and data fixed for the whole run.
OrderInit ==
    /\ pc = "start"
    /\ index = Dates(MaxRows)
    /\ factors_in = SubSeq(FactorNames, 1, MaxFactors)
    /\ constant_columns = {}
    /\ stocks_df = SubSeq(StockLabels, 1, 1)
    /\ r2_threshold = 50
    /\ outputToExcel = TRUE
    /\ Locals
    /\ sp_pc = "idle" /\ sp_df = <<>> /\ sp_ratio = DefaultRatio /\ sp_out = <<<<>>, <<>>>>
    /\ oracle \in Oracles(Range(factors_in))
    /\ seq_set = Range(add_constant(factors_in, constant_columns))
    /\ seq_pc = "run"

\* Backward elimination that removes one failing factor, any one, and refits;
\* it ends when no non-constant factor of the fit is above signif_level.
OneAtATime ==
    /\ seq_pc = "run"
    /\ LET failing == FailingIn(oracle, seq_set \ {"const"})
       IN IF failing = {}
          THEN seq_pc' = "done" /\ seq_set' = seq_set
          ELSE \E f \in failing : seq_set' = seq_set \ {f} /\ seq_pc' = "run"
    /\ UNCHANGED <<pc, inputs, factor_train_df, factor_test_df, portfolios, stock_idx,
                   stock_train_df, stock_test_df, pvals_under_sig, temp_factor_df, model,
                   results, all_pvals_under, factor, factor_test_temp_df, tm_call,
                   reg_call, returned, fits, qualified, evaluated, recorded, spvars>>

\* regress_factors runs on the same data once the one-at-a-time elimination is done.
OrderNext ==
    \/ OneAtATime
    \/ seq_pc = "done" /\ RegressStart
    \/ seq_pc = "done" /\ ForStock
    \/ seq_pc = "done" /\ Return
    \/ seq_pc = "done" /\ WhileExit
    \/ seq_pc = "done" /\ FitAndPrune
    \/ seq_pc = "done" /\ GateAccept
    \/ seq_pc = "done" /\ GateReject
    \/ seq_pc = "done" /\ TestModel
    \/ seq_pc = "done" /\ TestRegularized
    \/ seq_pc = "done" /\ OutputDone
    \/ seq_pc = "done" /\ OutputRaises
    \/ seq_pc = "done" /\ EndIter

OrderSpec == OrderInit /\ [][OrderNext]_vars

\* The while loop of the security has ended.
LoopEnded == stock_idx = 1 /\ (pc \in {"for", "returned"} \/ (pc = "while" /\ ~WhileCondition))

\* Whether a factor's p-value is above signif_level is the same in every fit it is in.
FailingFixed(o) ==
    \A p, q \in {x \in (SUBSET Range(factors_in)) \X Range(factors_in) : x[2] \in x[1]} :
        p[2] = q[2] => (p \in o.failing <=> q \in o.failing)

\* C11 as stated: with p-values that depend only on the candidate set, the loop of
\* regress_factors ends with the set that one-at-a-time elimination ends with,
\* whatever the order of the removals.
OrderIndependence ==
    (LoopEnded /\ seq_pc = "done") => Range(temp_factor_df) = seq_set

\* C11 amended: the two final sets are equal when, in addition, whether a factor's
\* p-value is above signif_level does not change with the other columns of the fit.
OrderIndependenceFixedFailing ==
    (LoopEnded /\ seq_pc = "done" /\ FailingFixed(oracle)) =>
        Range(temp_factor_df) = seq_set

OrderIndependenceWitness ==
    /\ LoopEnded /\ seq_pc = "done" /\ FailingFixed(oracle)
    /\ fits = 2
    /\ Cardinality(Range(factors_in) \ seq_set) >= 2
    /\ Range(temp_factor_df) = seq_set
====
